---- MODULE Spec2Model ----
(***************************************************************************)
(* Setlist document engine of musicians-setlist-builder-app:               *)
(*   - the Setlist model (sets, songs, durations, version fields) and its  *)
(*     addSong / moveSong methods and pre-save hook                        *)
(*     (src/backend/models/band.model.js, second half),                    *)
(*   - the Band model and the access check isAccessibleBy                  *)
(*     (src/backend/models/band.model.js),                                 *)
(*   - the socket.io collaboration handlers (src/backend/server.js),       *)
(*   - two mutation requests on one persisted Setlist, after the store     *)
(*     contract of the specification.                                      *)
(***************************************************************************)
EXTENDS Integers, Sequences, FiniteSets, TLC

VARIABLES
    \* ---- Setlist document (setlistSchema) ----
    sets,            \* array of sets; a position may be a hole of a sparse array
    totalDuration,   \* setlist.totalDuration
    version,         \* setlist.version
    versionHistory,  \* setlist.versionHistory
    lastCall,        \* the last method call on the document and how it ended
    held,            \* set position -> the order values its entries have held
    \* ---- access fields of the Setlist document, and the Band collection ----
    isPublic,        \* setlist.isPublic
    createdBy,       \* setlist.createdBy
    bandId,          \* setlist.bandId (null when the setlist has no band)
    bands,           \* Band collection: _id -> document, or no document
    \* ---- socket.io server ----
    sockets,         \* socket id -> "none" | "connected" | "disconnected"
    rooms,           \* socket id -> the rooms the socket is in
    received,        \* socket id -> the 'setlist-updated' events sent to it
    updates,         \* the 'update-setlist' events handled: <<sender, data>>
    \* ---- concurrent mutation requests on one persisted Setlist ----
    stored,          \* the sets of the persisted Setlist document
    sessions         \* writer -> its request: position, document loaded, document held

engineVars == <<sets, totalDuration, version, versionHistory, lastCall, held>>

accessVars == <<isPublic, createdBy, bandId, bands>>

roomVars == <<sockets, rooms, received, updates>>

sessionVars == <<stored, sessions>>

vars == <<sets, totalDuration, version, versionHistory, lastCall, held,
          isPublic, createdBy, bandId, bands,
          sockets, rooms, received, updates,
          stored, sessions>>

----------------------------------------------------------------------------
(* Bounds *)

MaxSets == 2     \* addSong addresses set positions 0..MaxSets-1
MaxSongs == 3    \* entries held by one Setlist
MaxMembers == 2  \* member entries held by the Band collection
MaxUpdates == 2  \* 'update-setlist' events handled by the server

----------------------------------------------------------------------------
(* Values *)

\* a JavaScript `undefined` number argument (addSong called without a duration)
undefined == 0 - 1

\* an array position that holds no element (sparse array)
Hole == [hole |-> TRUE]

\* the songs of the library, each with the duration it supplies to addSong
Catalogue ==
    {[songId |-> "A", duration |-> 1], [songId |-> "B", duration |-> 2],
     [songId |-> "C", duration |-> undefined]}

SetIndexes == 0 .. (MaxSets - 1)
MoveSetIndexes == (0 - 1) .. MaxSets
MoveSongIndexes == (0 - 1) .. MaxSongs
MovePositions == (0 - 1) .. MaxSongs

Max(a, b) == IF a >= b THEN a ELSE b
Min(a, b) == IF a <= b THEN a ELSE b

\* JavaScript array indexing arr[i]: defined only at 0..length-1 (1-based here)
HasIndex(arr, i) == i >= 0 /\ i < Len(arr)
At(arr, i) == arr[i + 1]

\* !this.sets[i] is false: position i holds a set
SetExists(ss, i) == HasIndex(ss, i) /\ At(ss, i) # Hole

IsSet(s) == s # Hole

\* mutant: song.duration, without the `|| 0`
DurationRaw(d) == d

\* song.duration || 0
DurationOrZero(d) == IF d = undefined THEN 0 ELSE d

RECURSIVE SumSongs(_)
\* set.songs.reduce((setTotal, song) => setTotal + (song.duration || 0), 0)
SumSongs(songs) ==
    IF songs = <<>> THEN 0
    ELSE SumSongs(SubSeq(songs, 1, Len(songs) - 1))
         + DurationOrZero(songs[Len(songs)].duration)

\* mutant: set.duration += ..., the sum added to the stored duration
SavedSetAccumulating(s) ==
    IF IsSet(s) THEN [s EXCEPT !.duration = @ + SumSongs(s.songs)] ELSE s

\* the pre-save hook's effect on one set; reduce skips the holes of the array
SavedSet(s) == IF IsSet(s) THEN [s EXCEPT !.duration = SumSongs(s.songs)] ELSE s

SavedSets(ss) == [i \in 1 .. Len(ss) |-> SavedSet(ss[i])]

RECURSIVE SumSetDurations(_)
\* this.sets.reduce((total, set) => total + set.duration, 0)
SumSetDurations(ss) ==
    IF ss = <<>> THEN 0
    ELSE SumSetDurations(SubSeq(ss, 1, Len(ss) - 1))
         + (IF IsSet(ss[Len(ss)]) THEN ss[Len(ss)].duration ELSE 0)

\* number of song entries held by the setlist
RECURSIVE CountSongs(_)
CountSongs(ss) ==
    IF ss = <<>> THEN 0
    ELSE CountSongs(SubSeq(ss, 1, Len(ss) - 1))
         + (IF IsSet(ss[Len(ss)]) THEN Len(ss[Len(ss)].songs) ELSE 0)

\* mutant: `Set ${setIndex}`, the index not raised to a 1-based label
DefaultSetNameZeroBased(setIndex) == "Set " \o ToString(setIndex)

\* `Set ${setIndex + 1}`
DefaultSetName(setIndex) == "Set " \o ToString(setIndex + 1)

\* this.sets[setIndex] = value  (assignment past the end leaves holes)
AssignAt(ss, i, value) ==
    [k \in 1 .. Max(Len(ss), i + 1) |->
        IF k = i + 1 THEN value
        ELSE IF k <= Len(ss) THEN ss[k] ELSE Hole]

RECURSIVE MaxOrder(_)
\* Math.max(...songs.map(s => s.order)), for a non-empty songs array
MaxOrder(songs) ==
    IF Len(songs) = 1 THEN songs[1].order
    ELSE Max(MaxOrder(SubSeq(songs, 1, Len(songs) - 1)), songs[Len(songs)].order)

\* mutant: the next order taken from the first entry, not from the largest
NextOrderFromFirst(songs) == IF Len(songs) # 0 THEN songs[1].order + 1 ELSE 1

\* const nextOrder = songs.length ? Math.max(...) + 1 : 1
NextOrder(songs) == IF Len(songs) # 0 THEN MaxOrder(songs) + 1 ELSE 1

\* Array.prototype.splice's start: negative counts from the end, then clamped
SpliceStart(start, len) ==
    IF start < 0 THEN Max(len + start, 0) ELSE Min(start, len)

\* mutant: songs.splice(i + 1, 1), one position off
RemoveAtOffByOne(songs, i) ==
    LET k == SpliceStart(i + 1, Len(songs))
    IN  SubSeq(songs, 1, k) \o SubSeq(songs, k + 2, Len(songs))

\* songs.splice(i, 1), as the array left behind
RemoveAt(songs, i) ==
    LET k == SpliceStart(i, Len(songs))
    IN  SubSeq(songs, 1, k) \o SubSeq(songs, k + 2, Len(songs))

\* mutant: songs.splice(pos, 1, song), replacing the entry at pos
InsertAtReplacing(songs, pos, song) ==
    LET k == SpliceStart(pos, Len(songs))
    IN  SubSeq(songs, 1, k) \o <<song>> \o SubSeq(songs, k + 2, Len(songs))

\* songs.splice(pos, 0, song)
InsertAt(songs, pos, song) ==
    LET k == SpliceStart(pos, Len(songs))
    IN  SubSeq(songs, 1, k) \o <<song>> \o SubSeq(songs, k + 1, Len(songs))

\* mutant: song.order = index, the array index taken as the order
RenumberZeroBased(songs) ==
    [i \in 1 .. Len(songs) |-> [songs[i] EXCEPT !.order = i - 1]]

\* songs.forEach((song, index) => { song.order = index + 1; })
Renumber(songs) == [i \in 1 .. Len(songs) |-> [songs[i] EXCEPT !.order = i]]

----------------------------------------------------------------------------
(* Initial Setlist documents *)

\* new Setlist({title, createdBy}) after its first save
NewSetlist == <<>>

Entry(songId, order, duration) ==
    [songId |-> songId, order |-> order, duration |-> duration,
     notes |-> "", isPlayed |-> FALSE]

\* a saved two-set Setlist: Set0 = [A 180, B 200], Set1 = [C 150]
ScenarioSetlist ==
    << [name |-> "Set 1", duration |-> 380,
        songs |-> <<Entry("A", 1, 180), Entry("B", 2, 200)>>],
       [name |-> "Set 2", duration |-> 150,
        songs |-> <<Entry("C", 1, 150)>>] >>

\* a saved one-set Setlist whose order values are not in array order
PermutedSetlist ==
    << [name |-> "Main Set", duration |-> 3,
        songs |-> <<Entry("A", 2, 1), Entry("B", 1, 2)>>] >>

NoCall == [op |-> "new", err |-> "none"]

\* the order values held by the entries of each set position of ss
HeldNow(ss) ==
    [k \in 1 .. MaxSets |->
        IF k <= Len(ss) /\ IsSet(ss[k])
        THEN {ss[k].songs[j].order : j \in 1 .. Len(ss[k].songs)}
        ELSE {}]

EngineInit ==
    /\ sets \in {NewSetlist, ScenarioSetlist, PermutedSetlist}
    /\ totalDuration = SumSetDurations(sets)
    /\ version = 1
    /\ versionHistory = <<>>
    /\ lastCall = NoCall
    /\ held = HeldNow(sets)

----------------------------------------------------------------------------
(* Setlist methods *)

\* setlistSchema.methods.addSong
AddSongResult(ss, setIndex, songId, duration, notes) ==
    LET created == IF ~SetExists(ss, setIndex)
                   THEN AssignAt(ss, setIndex,
                                 [name |-> DefaultSetName(setIndex),
                                  duration |-> 0, songs |-> <<>>])
                   ELSE ss
        target == At(created, setIndex)
        nextOrder == NextOrder(target.songs)
        pushed == Append(target.songs,
                         [songId |-> songId, order |-> nextOrder,
                          duration |-> duration, notes |-> notes,
                          isPlayed |-> FALSE])
    IN  [created EXCEPT ![setIndex + 1].songs = pushed]

addSong(setIndex, songId, duration, notes) ==
    /\ CountSongs(sets) < MaxSongs
    /\ sets' = AddSongResult(sets, setIndex, songId, duration, notes)
    /\ lastCall' = [op |-> "addSong", err |-> "none"]
    /\ UNCHANGED <<totalDuration, version, versionHistory>>

\* mutant: validation by `!fromSongIndex`, which rejects index 0
MoveSongErrorFalsyIndex(ss, fromSetIndex, fromSongIndex, toSetIndex) ==
    IF ~SetExists(ss, fromSetIndex) \/ ~SetExists(ss, toSetIndex)
    THEN "Invalid set index"
    ELSE IF fromSongIndex = 0
            \/ ~HasIndex(At(ss, fromSetIndex).songs, fromSongIndex)
    THEN "Invalid song index"
    ELSE "none"

\* the error moveSong throws, or "none"
MoveSongError(ss, fromSetIndex, fromSongIndex, toSetIndex) ==
    IF ~SetExists(ss, fromSetIndex) \/ ~SetExists(ss, toSetIndex)
    THEN "Invalid set index"
    ELSE IF ~HasIndex(At(ss, fromSetIndex).songs, fromSongIndex)
    THEN "Invalid song index"
    ELSE "none"

\* mutant: moveSong that renumbers the destination set only
MoveSongResultDestOnly(ss, fromSetIndex, fromSongIndex, toSetIndex, toPosition) ==
    LET song == At(At(ss, fromSetIndex).songs, fromSongIndex)
        removed == [ss EXCEPT ![fromSetIndex + 1].songs =
                        RemoveAt(@, fromSongIndex)]
        inserted == [removed EXCEPT ![toSetIndex + 1].songs =
                        InsertAt(@, toPosition, song)]
    IN  [inserted EXCEPT ![toSetIndex + 1].songs = Renumber(@)]

\* the body of moveSong after validation
MoveSongResult(ss, fromSetIndex, fromSongIndex, toSetIndex, toPosition) ==
    LET song == At(At(ss, fromSetIndex).songs, fromSongIndex)
        removed == [ss EXCEPT ![fromSetIndex + 1].songs =
                        RemoveAt(@, fromSongIndex)]
        inserted == [removed EXCEPT ![toSetIndex + 1].songs =
                        InsertAt(@, toPosition, song)]
        destDone == [inserted EXCEPT ![toSetIndex + 1].songs = Renumber(@)]
    IN  IF fromSetIndex # toSetIndex
        THEN [destDone EXCEPT ![fromSetIndex + 1].songs = Renumber(@)]
        ELSE destDone

\* setlistSchema.methods.moveSong
moveSong(fromSetIndex, fromSongIndex, toSetIndex, toPosition) ==
    LET err == MoveSongError(sets, fromSetIndex, fromSongIndex, toSetIndex)
    IN  /\ sets' = IF err = "none"
                   THEN MoveSongResult(sets, fromSetIndex, fromSongIndex,
                                       toSetIndex, toPosition)
                   ELSE sets
        /\ lastCall' = [op |-> "moveSong", err |-> err]
        /\ UNCHANGED <<totalDuration, version, versionHistory>>

\* setlist.save(): the pre-save hook
save ==
    /\ sets' = SavedSets(sets)
    /\ totalDuration' = SumSetDurations(SavedSets(sets))
    /\ lastCall' = [op |-> "save", err |-> "none"]
    /\ UNCHANGED <<version, versionHistory>>

----------------------------------------------------------------------------
(* Band model and the access check *)

Actors == {"u1", "u2", "u3"}
BandIds == {"b1", "b2"}
null == "null"

Roles == {"leader", "member"}

\* the enum of members.permissions
Permissions ==
    {"edit_setlists", "add_songs", "edit_songs", "invite_members", "remove_members"}

\* the permissions arrays given to a member; the first is the array of a
\* member added with no explicit permissions: the schema sets its default on
\* the element type, so the array itself defaults to empty
PermissionChoices ==
    {{}, {"edit_setlists", "add_songs"}, {"add_songs", "invite_members"}}

\* a Band _id with no document: never created, or deleted
NotCreated == [doc |-> "none"]
Deleted == [doc |-> "deleted"]

IsBandDoc(d) == d # NotCreated /\ d # Deleted

Member(userId, role, permissions) ==
    [userId |-> userId, role |-> role, permissions |-> permissions]

\* members.find(member => member.userId.toString() === userId.toString()):
\* the position of the first match, 0 when there is none
FindMember(members, userId) ==
    IF \E k \in 1 .. Len(members) : members[k].userId = userId
    THEN CHOOSE k \in 1 .. Len(members) :
            /\ members[k].userId = userId
            /\ \A j \in 1 .. (k - 1) : members[j].userId # userId
    ELSE 0

\* bandSchema.methods.hasMember
hasMember(band, userId) ==
    \E k \in 1 .. Len(band.members) : band.members[k].userId = userId

\* bandSchema.methods.isLeader
isLeader(band, userId) ==
    LET k == FindMember(band.members, userId)
    IN  k # 0 /\ band.members[k].role = "leader"

\* mutant: an empty permissions array read as the default
\* ['edit_setlists', 'add_songs']
hasPermissionDefaulted(band, userId, permission) ==
    LET k == FindMember(band.members, userId)
    IN  IF k = 0 THEN FALSE
        ELSE IF band.members[k].role = "leader" THEN TRUE
        ELSE IF band.members[k].permissions = {}
        THEN permission \in {"edit_setlists", "add_songs"}
        ELSE permission \in band.members[k].permissions

\* mutant: hasPermission without `if (member.role === 'leader') return true`
hasPermissionNoLeaderRule(band, userId, permission) ==
    LET k == FindMember(band.members, userId)
    IN  IF k = 0 THEN FALSE
        ELSE permission \in band.members[k].permissions

\* bandSchema.methods.hasPermission
hasPermission(band, userId, permission) ==
    LET k == FindMember(band.members, userId)
    IN  IF k = 0 THEN FALSE
        ELSE IF band.members[k].role = "leader" THEN TRUE
        ELSE permission \in band.members[k].permissions

\* bandSchema.pre('save') on a new document
BandPreSave(band) ==
    IF FindMember(band.members, band.createdBy) = 0
    THEN [band EXCEPT !.members =
             Append(@, Member(band.createdBy, "leader", Permissions))]
    ELSE band

\* Band.findOne({ _id: id, 'members.userId': userId }): the document or null
findOneBand(id, userId) ==
    IF id \in BandIds /\ IsBandDoc(bands[id]) /\ hasMember(bands[id], userId)
    THEN bands[id]
    ELSE NotCreated

\* mutant: isAccessibleBy without the band branch
isAccessibleByOwnerOnly(userId) ==
    IF isPublic THEN TRUE
    ELSE IF createdBy = userId THEN TRUE
    ELSE FALSE

\* mutant: isAccessibleBy without the isPublic branch
isAccessibleByPrivate(userId) ==
    IF createdBy = userId THEN TRUE
    ELSE IF bandId # null THEN IsBandDoc(findOneBand(bandId, userId))
    ELSE FALSE

\* setlistSchema.methods.isAccessibleBy: the value it resolves to when
\* Band.findOne resolves
isAccessibleBy(userId) ==
    IF isPublic THEN TRUE
    ELSE IF createdBy = userId THEN TRUE
    ELSE IF bandId # null THEN IsBandDoc(findOneBand(bandId, userId))
    ELSE FALSE

\* how the promise of Band.findOne settles
LookupOutcomes == {"resolves", "rejects"}

\* how the promise of isAccessibleBy settles: there is no try/catch around the
\* awaited Band.findOne, so its rejection is the rejection of isAccessibleBy
isAccessibleByOutcome(userId, lookup) ==
    IF isPublic THEN "true"
    ELSE IF createdBy = userId THEN "true"
    ELSE IF bandId # null
         THEN IF lookup = "rejects" THEN "rejected"
              ELSE IF IsBandDoc(findOneBand(bandId, userId)) THEN "true"
              ELSE "false"
    ELSE "false"

\* member entries held by the collection
MemberCount ==
    LET n(b) == IF IsBandDoc(bands[b]) THEN Len(bands[b].members) ELSE 0
    IN  n("b1") + n("b2")

\* the members arrays a band is created with
InitialMembers ==
    {<<>>} \cup {<<Member(u, r, {})>> : u \in Actors, r \in Roles}

\* new Band({ createdBy, members }).save()
createBand(b, creator, members) ==
    /\ bands[b] = NotCreated
    /\ MemberCount + Len(members) + 1 <= MaxMembers
    /\ bands' = [bands EXCEPT ![b] =
                    BandPreSave([createdBy |-> creator, members |-> members])]
    /\ UNCHANGED <<isPublic, createdBy, bandId>>

\* band.members.push({ userId, role, permissions }); band.save()
addMember(b, userId, role, permissions) ==
    /\ IsBandDoc(bands[b])
    /\ MemberCount < MaxMembers
    /\ bands' = [bands EXCEPT ![b].members =
                    Append(@, Member(userId, role, permissions))]
    /\ UNCHANGED <<isPublic, createdBy, bandId>>

\* the Band document is deleted; setlists keep their bandId
deleteBand(b) ==
    /\ IsBandDoc(bands[b])
    /\ bands' = [bands EXCEPT ![b] = Deleted]
    /\ UNCHANGED <<isPublic, createdBy, bandId>>

\* setlist.isPublic = value; setlist.save()
setPublic(value) ==
    /\ isPublic # value
    /\ isPublic' = value
    /\ UNCHANGED <<createdBy, bandId, bands>>

\* a new private setlist of u1 without a band, and an empty Band collection
AccessIdle ==
    /\ isPublic = FALSE
    /\ createdBy = "u1"
    /\ bandId = null
    /\ bands = [b \in BandIds |-> NotCreated]

\* new Setlist({ createdBy, bandId, isPublic }).save()
AccessInit ==
    /\ isPublic \in BOOLEAN
    /\ createdBy \in Actors
    /\ bandId \in {null} \cup BandIds
    /\ bands = [b \in BandIds |-> NotCreated]

EngineIdle ==
    /\ sets = NewSetlist
    /\ totalDuration = 0
    /\ version = 1
    /\ versionHistory = <<>>
    /\ lastCall = NoCall
    /\ held = HeldNow(sets)

----------------------------------------------------------------------------
(* socket.io collaboration handlers *)

SocketIds == {"s1", "s2", "s3"}

\* the setlistId values clients send: the number 1, the strings "1" and "2"
SetlistIdValues ==
    {[type |-> "number", text |-> "1"], [type |-> "string", text |-> "1"],
     [type |-> "string", text |-> "2"]}

\* the data of an 'update-setlist' event
Payloads == {[setlistId |-> id, version |-> 2] : id \in SetlistIdValues}

\* `setlist-${setlistId}`: the template converts the value to its text
RoomName(setlistId) == "setlist-" \o setlistId.text

\* mutant: io.to(room), which includes the sender
RecipientsWithSender(sender, room) ==
    {s \in SocketIds : sockets[s] = "connected" /\ room \in rooms[s]}

\* socket.to(room): the connected sockets in the room, the sender excepted
Recipients(sender, room) ==
    {s \in SocketIds : s # sender /\ sockets[s] = "connected" /\ room \in rooms[s]}

\* io.on('connection')
connection(s) ==
    /\ sockets[s] = "none"
    /\ sockets' = [sockets EXCEPT ![s] = "connected"]
    /\ UNCHANGED <<rooms, received, updates>>

\* socket.on('join-setlist')
joinSetlist(s, setlistId) ==
    /\ sockets[s] = "connected"
    /\ rooms' = [rooms EXCEPT ![s] = @ \cup {RoomName(setlistId)}]
    /\ UNCHANGED <<sockets, received, updates>>

\* socket.on('update-setlist')
updateSetlist(s, data) ==
    /\ sockets[s] = "connected"
    /\ Len(updates) < MaxUpdates
    /\ received' = [t \in SocketIds |->
                      IF t \in Recipients(s, RoomName(data.setlistId))
                      THEN Append(received[t], data)
                      ELSE received[t]]
    /\ updates' = Append(updates, <<s, data>>)
    /\ UNCHANGED <<sockets, rooms>>

\* socket.on('disconnect'): socket.io takes the socket out of its rooms
disconnect(s) ==
    /\ sockets[s] = "connected"
    /\ sockets' = [sockets EXCEPT ![s] = "disconnected"]
    /\ rooms' = [rooms EXCEPT ![s] = {}]
    /\ UNCHANGED <<received, updates>>

\* the server after start-up: no client has connected
RoomsIdle ==
    /\ sockets = [s \in SocketIds |-> "none"]
    /\ rooms = [s \in SocketIds |-> {}]
    /\ received = [s \in SocketIds |-> <<>>]
    /\ updates = <<>>

----------------------------------------------------------------------------
(* Concurrent mutation requests: each request loads the persisted Setlist,  *)
(* applies one addSong or moveSong to its own copy and saves it; the store   *)
(* takes each save whole, the last one committed standing.                   *)

Writers == {"w1", "w2"}

NoSession == [pc |-> "idle", base |-> <<>>, doc |-> <<>>]

SessionsIdle ==
    /\ stored = NewSetlist
    /\ sessions = [w \in Writers |-> NoSession]

SessionsInit ==
    /\ stored \in {NewSetlist, ScenarioSetlist, PermutedSetlist}
    /\ sessions = [w \in Writers |-> NoSession]

\* Setlist.findById(id): the request gets its own copy of the document
loadSetlist(w) ==
    /\ sessions[w].pc = "idle"
    /\ sessions' = [sessions EXCEPT ![w] =
                        [pc |-> "loaded", base |-> stored, doc |-> stored]]
    /\ UNCHANGED stored

\* setlist.addSong(setIndex, songId, duration) on the request's copy
requestAddSong(w, setIndex, songId, duration) ==
    /\ sessions[w].pc = "loaded"
    /\ CountSongs(sessions[w].doc) < MaxSongs
    /\ sessions' = [sessions EXCEPT
                        ![w].pc = "mutated",
                        ![w].doc = AddSongResult(@, setIndex, songId, duration, "")]
    /\ UNCHANGED stored

\* setlist.moveSong(...) on the request's copy; a throw ends the request
requestMoveSong(w, fromSetIndex, fromSongIndex, toSetIndex, toPosition) ==
    /\ sessions[w].pc = "loaded"
    /\ IF MoveSongError(sessions[w].doc, fromSetIndex, fromSongIndex,
                        toSetIndex) = "none"
       THEN sessions' = [sessions EXCEPT
                            ![w].pc = "mutated",
                            ![w].doc = MoveSongResult(@, fromSetIndex,
                                           fromSongIndex, toSetIndex, toPosition)]
       ELSE sessions' = [sessions EXCEPT ![w].pc = "failed"]
    /\ UNCHANGED stored

\* setlist.save(): the pre-save hook, then the store takes the document whole
commit(w) ==
    /\ sessions[w].pc = "mutated"
    /\ stored' = SavedSets(sessions[w].doc)
    /\ sessions' = [sessions EXCEPT ![w].pc = "saved",
                                    ![w].doc = SavedSets(@)]

----------------------------------------------------------------------------
(* Specifications *)

Init == EngineInit /\ AccessIdle /\ RoomsIdle /\ SessionsIdle

\* the order values of the document after the step join the ones held before
Remember == held' = [k \in 1 .. MaxSets |-> held[k] \cup HeldNow(sets')[k]]

\* the Setlist document under addSong, moveSong and save
Next ==
    \/ \E setIndex \in SetIndexes, song \in Catalogue :
          /\ addSong(setIndex, song.songId, song.duration, "")
          /\ Remember
          /\ UNCHANGED <<accessVars, roomVars, sessionVars>>
    \/ \E fromSetIndex \in MoveSetIndexes, fromSongIndex \in MoveSongIndexes,
          toSetIndex \in MoveSetIndexes, toPosition \in MovePositions :
          /\ moveSong(fromSetIndex, fromSongIndex, toSetIndex, toPosition)
          /\ Remember
          /\ UNCHANGED <<accessVars, roomVars, sessionVars>>
    \/ save /\ UNCHANGED <<held, accessVars, roomVars, sessionVars>>

Spec == Init /\ [][Next]_vars

InitAccess == AccessInit /\ EngineIdle /\ RoomsIdle /\ SessionsIdle

\* the access fields of a Setlist and the Band collection
NextAccess ==
    \/ \E b \in BandIds, creator \in Actors, members \in InitialMembers :
          createBand(b, creator, members) /\ UNCHANGED <<engineVars, roomVars, sessionVars>>
    \/ \E b \in BandIds, userId \in Actors, role \in Roles,
          permissions \in PermissionChoices :
          addMember(b, userId, role, permissions) /\ UNCHANGED <<engineVars, roomVars, sessionVars>>
    \/ \E b \in BandIds : deleteBand(b) /\ UNCHANGED <<engineVars, roomVars, sessionVars>>
    \/ \E value \in BOOLEAN : setPublic(value) /\ UNCHANGED <<engineVars, roomVars, sessionVars>>

SpecAccess == InitAccess /\ [][NextAccess]_vars

InitRooms == RoomsIdle /\ EngineIdle /\ AccessIdle /\ SessionsIdle

\* the socket.io server and its clients
NextRooms ==
    \/ \E s \in SocketIds :
          connection(s) /\ UNCHANGED <<engineVars, accessVars, sessionVars>>
    \/ \E s \in SocketIds, setlistId \in SetlistIdValues :
          joinSetlist(s, setlistId) /\ UNCHANGED <<engineVars, accessVars, sessionVars>>
    \/ \E s \in SocketIds, data \in Payloads :
          updateSetlist(s, data) /\ UNCHANGED <<engineVars, accessVars, sessionVars>>
    \/ \E s \in SocketIds :
          disconnect(s) /\ UNCHANGED <<engineVars, accessVars, sessionVars>>

SpecRooms == InitRooms /\ [][NextRooms]_vars

InitSessions == SessionsInit /\ EngineIdle /\ AccessIdle /\ RoomsIdle

\* two mutation requests on one persisted Setlist
NextSessions ==
    \/ \E w \in Writers :
          loadSetlist(w) /\ UNCHANGED <<engineVars, accessVars, roomVars>>
    \/ \E w \in Writers, setIndex \in SetIndexes, song \in Catalogue :
          /\ requestAddSong(w, setIndex, song.songId, song.duration)
          /\ UNCHANGED <<engineVars, accessVars, roomVars>>
    \/ \E w \in Writers, fromSetIndex \in MoveSetIndexes,
          fromSongIndex \in MoveSongIndexes, toSetIndex \in MoveSetIndexes,
          toPosition \in MovePositions :
          /\ requestMoveSong(w, fromSetIndex, fromSongIndex, toSetIndex, toPosition)
          /\ UNCHANGED <<engineVars, accessVars, roomVars>>
    \/ \E w \in Writers :
          commit(w) /\ UNCHANGED <<engineVars, accessVars, roomVars>>

SpecSessions == InitSessions /\ [][NextSessions]_vars

----------------------------------------------------------------------------
(* Vocabulary of the properties, stated independently of the methods *)

SetPositions(ss) == {i \in 1 .. Len(ss) : ss[i] # Hole}

\* the order values held by the entries of one songs array
OrderValues(songs) == {songs[k].order : k \in 1 .. Len(songs)}

\* an entry without its order: what a move carries from place to place
Strip(e) ==
    [songId |-> e.songId, duration |-> e.duration,
     notes |-> e.notes, isPlayed |-> e.isPlayed]

StripAll(songs) == [k \in 1 .. Len(songs) |-> Strip(songs[k])]

\* a sequence with its k-th element (1-based) taken out
Without(seq, k) ==
    [j \in 1 .. (Len(seq) - 1) |-> IF j < k THEN seq[j] ELSE seq[j + 1]]

\* seconds an entry contributes, an absent duration contributing none
Seconds(e) == IF e.duration = undefined THEN 0 ELSE e.duration

RECURSIVE SecondsOfSongs(_, _)
SecondsOfSongs(songs, k) ==
    IF k = 0 THEN 0 ELSE SecondsOfSongs(songs, k - 1) + Seconds(songs[k])

RECURSIVE SecondsOfSets(_, _)
\* the sum of the durations of every song entry of the first n positions
SecondsOfSets(ss, n) ==
    IF n = 0 THEN 0
    ELSE SecondsOfSets(ss, n - 1)
         + (IF ss[n] # Hole THEN SecondsOfSongs(ss[n].songs, Len(ss[n].songs))
            ELSE 0)

RECURSIVE DurationFields(_, _)
\* the sum of the sets' duration fields
DurationFields(ss, n) ==
    IF n = 0 THEN 0
    ELSE DurationFields(ss, n - 1) + (IF ss[n] # Hole THEN ss[n].duration ELSE 0)

\* every place <<set position, song position>> of the setlist
Places(ss) ==
    {p \in (1 .. Len(ss)) \X (1 .. MaxSongs + 1) :
        ss[p[1]] # Hole /\ p[2] <= Len(ss[p[1]].songs)}

\* how many entries of the setlist carry the content e
Occurrences(ss, e) ==
    Cardinality({p \in Places(ss) : Strip(ss[p[1]].songs[p[2]]) = e})

Contents(ss) == {Strip(ss[p[1]].songs[p[2]]) : p \in Places(ss)}

LastCallSucceeded(op) == lastCall.op = op /\ lastCall.err = "none"

----------------------------------------------------------------------------
(* Properties of the Setlist document *)

\* C1: after every addSong and moveSong call (failed calls included), in every
\* set the order values of the entries are exactly 1..N, N the number of
\* entries: no gap, no duplicate.
OrderContiguous ==
    \A i \in SetPositions(sets) :
        OrderValues(sets[i].songs) = 1 .. Len(sets[i].songs)

\* C1 witness: a move across sets has happened and left two sets holding
\* entries, one of them more than one.
OrderContiguousWitness ==
    /\ LastCallSucceeded("moveSong")
    /\ Len(sets) = 2 /\ SetPositions(sets) = {1, 2}
    /\ Len(sets[1].songs) = 1 /\ Len(sets[2].songs) = 2

\* C2 as stated: after every mutation, save or not, totalDuration is the sum
\* of all song durations and the sum of the sets' duration fields.
TotalsCurrentAfterEveryMutation ==
    /\ totalDuration = SecondsOfSets(sets, Len(sets))
    /\ totalDuration = DurationFields(sets, Len(sets))

\* C2 amended: immediately after every save, totalDuration is the sum of all
\* song durations (an absent one counting 0) and the sum of the sets' duration
\* fields (the pre-save hook recomputes them; addSong and moveSong do not).
TotalsCurrentAfterSave ==
    lastCall.op = "save" =>
        /\ totalDuration = SecondsOfSets(sets, Len(sets))
        /\ totalDuration = DurationFields(sets, Len(sets))

\* C2 witness: a save has recomputed a total of 3 seconds over two sets, one
\* entry having no duration.
TotalsCurrentAfterSaveWitness ==
    /\ lastCall.op = "save"
    /\ totalDuration = 3
    /\ SetPositions(sets) = {1, 2}
    /\ \E p \in Places(sets) : sets[p[1]].songs[p[2]].duration = undefined

\* C3 as stated: every committed mutation (a successful addSong or moveSong
\* followed by save) appends exactly one version record and raises version by
\* exactly 1, and version is the version of the last record.
VersionAdvancesOnCommit ==
    [][(lastCall.op \in {"addSong", "moveSong"} /\ lastCall.err = "none"
        /\ lastCall'.op = "save") =>
         /\ version' = version + 1
         /\ Len(versionHistory') = Len(versionHistory) + 1
         /\ versionHistory'[Len(versionHistory')].version = version']_vars

\* the entries of set setIndex (0-based) without their order
Carried(ss, setIndex) == StripAll(ss[setIndex + 1].songs)

\* C7: a successful moveSong keeps the relative sequence of the entries it
\* does not move, in the source set and in the destination set: whatever the
\* Setlist and the arguments moveSong accepts, the source without the moved
\* entry and the destination without it read as before.
MoveKeepsOthersInSequence ==
    \A f \in MoveSetIndexes, i \in MoveSongIndexes,
       t \in MoveSetIndexes, p \in MovePositions :
        MoveSongError(sets, f, i, t) = "none" =>
            LET after == MoveSongResult(sets, f, i, t, p)
                moved == Carried(sets, f)[i + 1]
                srcBefore == Carried(sets, f)
                srcAfter == Carried(after, f)
                dstBefore == Carried(sets, t)
                dstAfter == Carried(after, t)
            IN  IF f = t
                THEN \E j \in 1 .. Len(dstAfter) :
                        /\ dstAfter[j] = moved
                        /\ Without(dstAfter, j) = Without(srcBefore, i + 1)
                ELSE /\ srcAfter = Without(srcBefore, i + 1)
                     /\ \E j \in 1 .. Len(dstAfter) :
                            /\ dstAfter[j] = moved
                            /\ Without(dstAfter, j) = dstBefore

\* C7 witness: a move has succeeded in a set of three entries, two of which
\* were not the moved one.
MoveKeepsOthersInSequenceWitness ==
    /\ LastCallSucceeded("moveSong")
    /\ \E s \in SetPositions(sets) : Len(sets[s].songs) = 3

\* the Setlist of the scenario after moveSong(0, 1, 1, 0)
ScenarioAfterMove ==
    << [name |-> "Set 1", duration |-> 380,
        songs |-> <<Entry("A", 1, 180)>>],
       [name |-> "Set 2", duration |-> 150,
        songs |-> <<Entry("B", 1, 200), Entry("C", 2, 150)>>] >>

\* C8: a successful moveSong conserves the entries: every content occurs as
\* often after as before, the moved entry is in the destination set, a move
\* across sets takes exactly one entry from the source and gives one to the
\* destination, the sum of all song durations is unchanged and so is
\* totalDuration; and the scenario Set0=[A 180, B 200], Set1=[C 150],
\* moveSong(0,1,1,0) gives Set0=[A], Set1=[B, C] with 530 seconds in all.
MoveConservesEntries ==
    /\ [](\A f \in MoveSetIndexes, i \in MoveSongIndexes,
             t \in MoveSetIndexes, p \in MovePositions :
            MoveSongError(sets, f, i, t) = "none" =>
              LET after == MoveSongResult(sets, f, i, t, p)
              IN
                /\ Len(after) = Len(sets)
                /\ \A e \in Contents(sets) \cup Contents(after) :
                      Occurrences(after, e) = Occurrences(sets, e)
                /\ \E j \in 1 .. Len(after[t + 1].songs) :
                      Carried(after, t)[j] = Carried(sets, f)[i + 1]
                /\ f # t =>
                      /\ Len(after[f + 1].songs) = Len(sets[f + 1].songs) - 1
                      /\ Len(after[t + 1].songs) = Len(sets[t + 1].songs) + 1
                /\ f = t => Len(after[t + 1].songs) = Len(sets[t + 1].songs)
                /\ SecondsOfSets(after, Len(after)) = SecondsOfSets(sets, Len(sets))
                /\ (sets = ScenarioSetlist /\ f = 0 /\ i = 1 /\ t = 1 /\ p = 0) =>
                      /\ after = ScenarioAfterMove
                      /\ SecondsOfSets(after, Len(after)) = 530)
    /\ [][(lastCall'.op = "moveSong" /\ lastCall'.err = "none") =>
            /\ Len(sets') = Len(sets)
            /\ CountSongs(sets') = CountSongs(sets)
            /\ SecondsOfSets(sets', Len(sets')) = SecondsOfSets(sets, Len(sets))
            /\ totalDuration' = totalDuration
            /\ (sets = ScenarioSetlist /\ sets' = ScenarioAfterMove) =>
                  totalDuration' = 530]_vars

\* C8 witness: the scenario's move has been made.
MoveConservesEntriesWitness ==
    /\ LastCallSucceeded("moveSong")
    /\ sets = ScenarioAfterMove
    /\ totalDuration = 530

\* C10: moveSong fails exactly when fromSetIndex or toSetIndex addresses no
\* existing set or fromSongIndex addresses no entry of the source set
\* (negative indices included), and a failing moveSong changes nothing of the
\* Setlist.
MoveFailsOnBadReference ==
    /\ [](\A f \in MoveSetIndexes, i \in MoveSongIndexes, t \in MoveSetIndexes :
            LET fromOk == f + 1 \in SetPositions(sets)
                toOk == t + 1 \in SetPositions(sets)
                songOk == fromOk /\ i + 1 \in 1 .. Len(sets[f + 1].songs)
            IN  (MoveSongError(sets, f, i, t) # "none")
                    <=> ~(fromOk /\ toOk /\ songOk))
    /\ [][(lastCall'.op = "moveSong" /\ lastCall'.err # "none") =>
            /\ sets' = sets
            /\ totalDuration' = totalDuration
            /\ version' = version
            /\ versionHistory' = versionHistory]_vars

\* C10 witness: a moveSong has failed on a Setlist that holds entries.
MoveFailsOnBadReferenceWitness ==
    /\ lastCall.op = "moveSong"
    /\ lastCall.err = "Invalid song index"
    /\ CountSongs(sets) = MaxSongs

\* C11 as stated: a successful moveSong leaves the moved entry at destination
\* index max(0, min(toPosition, L)), L the destination's length once the entry
\* is detached, with order index + 1; a negative toPosition places it first.
MoveLandsAtClampedPosition ==
    \A f \in MoveSetIndexes, i \in MoveSongIndexes,
       t \in MoveSetIndexes, p \in MovePositions :
        MoveSongError(sets, f, i, t) = "none" =>
            LET after == MoveSongResult(sets, f, i, t, p)
                L == IF f = t THEN Len(sets[t + 1].songs) - 1
                     ELSE Len(sets[t + 1].songs)
                k == Max(0, Min(p, L))
            IN  /\ Carried(after, t)[k + 1] = Carried(sets, f)[i + 1]
                /\ after[t + 1].songs[k + 1].order = k + 1
                /\ p < 0 => after[t + 1].songs[1].order = 1
                            /\ Carried(after, t)[1] = Carried(sets, f)[i + 1]

\* the set positions that an addSong step gave an entry to
Grown ==
    {k \in SetPositions(sets') :
        \/ k \notin SetPositions(sets)
        \/ Len(sets'[k].songs) = Len(sets[k].songs) + 1}

\* the order values the entries of set position k hold now
OrdersNow(k) == IF k \in SetPositions(sets) THEN OrderValues(sets[k].songs) ELSE {}

\* the order of the last entry of set position k after the step
NewOrder(k) == sets'[k].songs[Len(sets'[k].songs)].order

\* C12 as stated: addSong never gives the new entry an order value that an
\* entry of that set held at an earlier point and that no entry holds any more.
NeverReusesRetiredOrder ==
    [][lastCall'.op = "addSong" =>
          \A k \in Grown : NewOrder(k) \notin (held[k] \ OrdersNow(k))]_vars

\* C12 amended: addSong never gives the new entry an order value that an entry
\* of that set holds at the time of the call (a value retired earlier, such as
\* the order of an entry since moved out, can be given again).
NeverReusesCurrentOrder ==
    [][lastCall'.op = "addSong" =>
          /\ Grown # {}
          /\ \A k \in Grown : NewOrder(k) \notin OrdersNow(k)]_vars

\* C12 witness: addSong has appended a third entry to a set whose earlier
\* entries held the order values 1 and 2.
NeverReusesCurrentOrderWitness ==
    /\ LastCallSucceeded("addSong")
    /\ \E k \in SetPositions(sets) :
          /\ Len(sets[k].songs) = 3
          /\ held[k] = {1, 2, 3}

\* the positional labels 'Set 1', 'Set 2', ... of new sets
PositionalLabels == <<"Set 1", "Set 2", "Set 3", "Set 4", "Set 5">>

\* the largest of a non-empty set of order values
Largest(values) == CHOOSE m \in values : \A v \in values : v <= m

\* C15: addSong(setIndex, songId, duration, notes), whatever the Setlist: with
\* no set at setIndex a new set appears at exactly that position, named
\* 'Set <setIndex+1>', the new entry its only entry with order 1; with a set
\* there the entry is appended last with order (largest order of the set) + 1
\* (1 when the set holds no entry); every other set and every earlier entry is
\* unchanged.
AddSongAppends ==
    \A setIndex \in SetIndexes, song \in Catalogue :
        LET after == AddSongResult(sets, setIndex, song.songId, song.duration, "n")
            k == setIndex + 1
            songs == after[k].songs
            new == songs[Len(songs)]
        IN  /\ SetPositions(after) = SetPositions(sets) \cup {k}
            /\ \A j \in SetPositions(sets) \ {k} : after[j] = sets[j]
            /\ Len(after) = Max(Len(sets), k)
            /\ new.songId = song.songId /\ new.duration = song.duration
            /\ new.notes = "n"
            /\ IF k \notin SetPositions(sets)
               THEN /\ after[k].name = PositionalLabels[k]
                    /\ Len(songs) = 1
                    /\ new.order = 1
               ELSE /\ after[k].name = sets[k].name
                    /\ after[k].duration = sets[k].duration
                    /\ SubSeq(songs, 1, Len(songs) - 1) = sets[k].songs
                    /\ new.order = IF sets[k].songs = <<>> THEN 1
                                   ELSE Largest(OrderValues(sets[k].songs)) + 1

\* C15 witness: addSong has made 'Set 2' at position 1 with one entry, next to
\* a first set to which entries were appended.
AddSongAppendsWitness ==
    /\ LastCallSucceeded("addSong")
    /\ SetPositions(sets) = {1, 2}
    /\ sets[2].name = "Set 2"
    /\ Len(sets[2].songs) = 1 /\ sets[2].songs[1].order = 1
    /\ Len(sets[1].songs) = 2 /\ sets[1].songs[2].order = 2

\* C17: after a save each set's duration is the sum of its entries' durations,
\* an absent one counting 0, and totalDuration is the sum of the sets'
\* durations; the save changes no entry; and a save that follows a save with
\* no mutation in between leaves every duration field as it is.
SaveRecomputesDurations ==
    /\ [](lastCall.op = "save" =>
            /\ \A i \in SetPositions(sets) :
                  sets[i].duration = SecondsOfSongs(sets[i].songs, Len(sets[i].songs))
            /\ totalDuration = DurationFields(sets, Len(sets)))
    /\ [][lastCall'.op = "save" =>
            /\ Len(sets') = Len(sets)
            /\ SetPositions(sets') = SetPositions(sets)
            /\ \A i \in SetPositions(sets) :
                  /\ sets'[i].songs = sets[i].songs
                  /\ sets'[i].name = sets[i].name
            /\ lastCall.op = "save" =>
                  /\ sets' = sets
                  /\ totalDuration' = totalDuration]_vars

\* C17 witness: the scenario's Setlist was saved after its move: the sets'
\* durations, 380 and 150 before the save, are 180 and 350.
SaveRecomputesDurationsWitness ==
    /\ lastCall.op = "save"
    /\ SetPositions(sets) = {1, 2}
    /\ StripAll(sets[1].songs) = StripAll(ScenarioAfterMove[1].songs)
    /\ StripAll(sets[2].songs) = StripAll(ScenarioAfterMove[2].songs)
    /\ sets[1].duration = 180 /\ sets[2].duration = 350
    /\ totalDuration = 530

\* C19 as stated: after any sequence of addSong and moveSong calls the sets
\* sequence is dense: every position 0..len-1 holds a set with a songs
\* sequence, so that no moveSong naming a position below len fails for the
\* lack of a set there.
SetsDense ==
    /\ \A i \in 1 .. Len(sets) : IsSet(sets[i])
    /\ \A f \in 0 .. (Len(sets) - 1), t \in 0 .. (Len(sets) - 1) :
          MoveSongError(sets, f, 0, t) # "Invalid set index"

----------------------------------------------------------------------------
(* Properties of the access check *)

\* the band the setlist names, when that document exists
SetlistHasBand == bandId # null /\ IsBandDoc(bands[bandId])

\* Write access: the creator, or a member of the setlist's band whom
\* hasPermission grants 'edit_setlists'
WriteGranted(userId) ==
    \/ createdBy = userId
    \/ SetlistHasBand /\ hasPermission(bands[bandId], userId, "edit_setlists")

\* the actor has an entry in the members of the setlist's band
MemberOfSetlistBand(userId) ==
    SetlistHasBand /\ \E k \in DOMAIN bands[bandId].members :
                          bands[bandId].members[k].userId = userId

\* the entries the actor has in the members of the setlist's band
EntriesOf(userId) ==
    {bands[bandId].members[k] : k \in
        {j \in DOMAIN bands[bandId].members :
            bands[bandId].members[j].userId = userId}}

\* C4: whoever is granted Write (the creator, or a band member with
\* 'edit_setlists') is granted Read by isAccessibleBy.
WriteImpliesRead ==
    \A a \in Actors : WriteGranted(a) => isAccessibleBy(a)

\* C4 witness: on a private setlist, an actor other than the creator holds
\* Write through a plain member's 'edit_setlists' permission.
WriteImpliesReadWitness ==
    /\ ~isPublic
    /\ \E a \in Actors :
          /\ a # createdBy
          /\ WriteGranted(a)
          /\ EntriesOf(a) = {Member(a, "member", {"edit_setlists", "add_songs"})}

\* C5: on a public setlist an actor who is neither the creator nor a member of
\* its band is granted Read and not Write; and a change of isPublic changes no
\* actor's Write decision.
PublicGrantsReadOnly ==
    /\ [](isPublic =>
            \A a \in Actors :
                (a # createdBy /\ ~MemberOfSetlistBand(a)) =>
                    isAccessibleBy(a) /\ ~WriteGranted(a))
    /\ [][isPublic' # isPublic =>
            \A a \in Actors : WriteGranted(a)' = WriteGranted(a)]_vars

\* C5 witness: a public setlist with an existing band, and an actor who is
\* neither its creator nor in the band.
PublicGrantsReadOnlyWitness ==
    /\ isPublic
    /\ SetlistHasBand
    /\ \E a \in Actors :
          a # createdBy /\ ~MemberOfSetlistBand(a) /\ isAccessibleBy(a)

\* C9: on a private setlist with a bandId, for an actor who is not the
\* creator: Read is denied while the actor is not a member of the band; as a
\* plain member with no explicit permissions the actor is granted Read and is
\* still denied Write.
PlainMemberReadsOnly ==
    \A a \in Actors :
        (~isPublic /\ bandId # null /\ a # createdBy) =>
            /\ ~MemberOfSetlistBand(a) => ~isAccessibleBy(a)
            /\ (MemberOfSetlistBand(a) /\ EntriesOf(a) = {Member(a, "member", {})}) =>
                  /\ isAccessibleBy(a)
                  /\ ~hasPermission(bands[bandId], a, "edit_setlists")
                  /\ ~WriteGranted(a)

\* C9 witness: the actor has been added to the band of a private setlist as a
\* plain member with no explicit permissions.
PlainMemberReadsOnlyWitness ==
    /\ ~isPublic
    /\ SetlistHasBand
    /\ \E a \in Actors :
          /\ a # createdBy
          /\ a # bands[bandId].createdBy
          /\ EntriesOf(a) = {Member(a, "member", {})}

\* C13 as stated: isAccessibleBy never fails: whether the band lookup
\* resolves or rejects, and whether or not the band exists, the check settles
\* on true for the creator and for a public setlist, on false for anyone else
\* whom the lookup does not show to be a member, and never on a rejection.
AccessCheckNeverFails ==
    \A a \in Actors, lookup \in LookupOutcomes :
        LET outcome == isAccessibleByOutcome(a, lookup)
            shownMember == lookup = "resolves" /\ MemberOfSetlistBand(a)
        IN  /\ outcome # "rejected"
            /\ (isPublic \/ createdBy = a) => outcome = "true"
            /\ (~isPublic /\ createdBy # a /\ ~shownMember) => outcome = "false"

\* the entries an actor has in the members of a band
EntriesIn(band, userId) ==
    {band.members[k] : k \in
        {j \in DOMAIN band.members : band.members[j].userId = userId}}

\* C16: for every band, actor and permission p: a non-member satisfies no
\* permission check; a leader satisfies every one, whatever the permission
\* set holds; an actor listed once satisfies the check for p exactly when the
\* role is 'leader' or p is in the permission set; and no check is satisfied
\* without an entry that is a leader's or holds p.
HasPermissionIsRoleOrGrant ==
    \A b \in BandIds :
        IsBandDoc(bands[b]) =>
            \A a \in Actors, p \in Permissions :
                LET entries == EntriesIn(bands[b], a)
                    roles == {e.role : e \in entries}
                    granted == UNION {e.permissions : e \in entries}
                    answer == hasPermission(bands[b], a, p)
                IN  /\ entries = {} => ~answer
                    /\ roles = {"leader"} => answer
                    /\ Cardinality(entries) = 1 =>
                          (answer <=> ("leader" \in roles \/ p \in granted))
                    /\ answer => ("leader" \in roles \/ p \in granted)

\* C16 witness: a band holds a leader with an empty permission set, who
\* satisfies a check, next to an actor who is no member.
HasPermissionIsRoleOrGrantWitness ==
    \E b \in BandIds :
        /\ IsBandDoc(bands[b])
        /\ \E a \in Actors :
              /\ EntriesIn(bands[b], a) = {Member(a, "leader", {})}
              /\ hasPermission(bands[b], a, "remove_members")
        /\ \E a \in Actors :
              /\ EntriesIn(bands[b], a) = {}
              /\ ~hasPermission(bands[b], a, "edit_setlists")
        /\ \E a \in Actors :
              /\ EntriesIn(bands[b], a) = {Member(a, "member", {"edit_setlists", "add_songs"})}
              /\ hasPermission(bands[b], a, "add_songs")
              /\ ~hasPermission(bands[b], a, "edit_songs")

\* C18 as stated: after the first save of a new Band, whatever its initial
\* members list, the creator is a member with role 'leader': isLeader holds
\* of the creator and so does hasPermission for every permission.
CreatorLeadsNewBand ==
    [][\A b \in BandIds :
          (bands[b] = NotCreated /\ IsBandDoc(bands'[b])) =>
              /\ hasMember(bands'[b], bands'[b].createdBy)
              /\ isLeader(bands'[b], bands'[b].createdBy)
              /\ \A p \in Permissions :
                    hasPermission(bands'[b], bands'[b].createdBy, p)]_vars

----------------------------------------------------------------------------
(* Properties of the collaboration handlers *)

\* C6: when a session sends one update for setlist S, every other session
\* that has joined the room of S receives exactly one 'setlist-updated' event
\* with that payload; the sender and the sessions not in the room receive
\* none.
BroadcastToOthersInRoom ==
    [][Len(updates') = Len(updates) + 1 =>
         LET sender == updates'[Len(updates')][1]
             data == updates'[Len(updates')][2]
         IN  \A t \in SocketIds :
                received'[t] =
                   IF t # sender /\ RoomName(data.setlistId) \in rooms[t]
                   THEN Append(received[t], data)
                   ELSE received[t]]_vars

\* C6 witness: one update was sent by a session that is itself in the room;
\* a second session in the room has received it once, the sender and a third
\* connected session outside the room have received nothing.
BroadcastToOthersInRoomWitness ==
    \E s \in SocketIds :
      \E t \in SocketIds \ {s} :
        \E x \in SocketIds \ {s, t} :
            /\ Len(updates) = 1
            /\ updates[1][1] = s
            /\ RoomName(updates[1][2].setlistId) \in rooms[s] \cap rooms[t]
            /\ RoomName(updates[1][2].setlistId) \notin rooms[x]
            /\ sockets[x] = "connected"
            /\ received[t] = <<updates[1][2]>>
            /\ received[s] = <<>>
            /\ received[x] = <<>>

----------------------------------------------------------------------------
(* Properties of concurrent mutation requests *)

\* C14: two requests load the same Setlist, each applies an addSong or a
\* moveSong and each saves, in any interleaving: in every set of the persisted
\* Setlist the order values are exactly 1..N, no duplicate.
StoredOrderContiguous ==
    \A i \in SetPositions(stored) :
        OrderValues(stored[i].songs) = 1 .. Len(stored[i].songs)

\* C14 witness: both requests loaded the two-set Setlist before either saved,
\* both changed its first set, differently, and both have saved.
StoredOrderContiguousWitness ==
    /\ \A w \in Writers :
          /\ sessions[w].pc = "saved"
          /\ sessions[w].base = ScenarioSetlist
          /\ sessions[w].doc[1].songs # ScenarioSetlist[1].songs
    /\ sessions["w1"].doc # sessions["w2"].doc
    /\ stored = sessions["w2"].doc

====
